---- MODULE Spec2Model ----
(***************************************************************************)
(* A model of ws/interlanguage/CategoryGraph.py: the recursive generator  *)
(* CategoryGraph.walk, the look-ahead wrapper MyIterator and the merge    *)
(* generator CategoryGraph.compare_components.                             *)
(*                                                                         *)
(* A generator is modelled by its suspended state.  walk is a chain of    *)
(* nested generator frames sharing the mutable list `levels` and the      *)
(* mutable set `visited`; compare_components is modelled statement by     *)
(* statement, pc naming the source line that runs next.                    *)
(***************************************************************************)
EXTENDS Integers, Sequences, FiniteSets, TLC

VARIABLES
    graph,      \* the `graph` argument: category title -> list of subcategories
    left,       \* compare_components: the `left` root
    right,      \* compare_components: the `right` root
    pc,         \* compare_components: the line that runs next
    lgen,       \* compare_components: MyIterator over walk(graph, left)
    rgen,       \* compare_components: MyIterator over walk(graph, right)
    lval,       \* compare_components: current left entry or None
    rval,       \* compare_components: current right entry or None
    out,        \* the pairs compare_components has yielded so far
    node,       \* walk on its own: the root `node` argument
    gen,        \* walk on its own: the suspended generator
    entries,    \* walk on its own: the entries yielded so far, as seen at the yield
                \* (there pc is the consumer's loop: "walk", then "end")
    it,         \* MyIterator on its own: the iterator over walk(graph, node)
    taken,      \* MyIterator on its own: the items __next__ has returned
    pages,      \* build_graph: the pages the API generator has yielded so far
    graph_parents,  \* build_graph: category title -> list of its parents
    graph_subcats,  \* build_graph: category title -> list of its subcategories
    info,       \* build_graph: category title -> "categoryinfo" dictionary
    position,   \* Connection: caller -> where its call is
    params,     \* call_api: caller -> the `params` argument, then the local
    kwargs,     \* call_api: caller -> the keyword arguments
    action,     \* call_api: caller -> the local `action`
    sent,       \* Connection: the HTTP requests handed to self.request
    raised      \* Connection: caller -> the exception its last call raised, if any

vars == <<graph, left, right, pc, lgen, rgen, lval, rval, out, node, gen, entries,
          it, taken, pages, graph_parents, graph_subcats, info,
          position, params, kwargs, action, sent, raised>>
cmpVars == <<left, right, pc, lgen, rgen, lval, rval, out>>
walkVars == <<node, gen, entries>>
iterVars == <<it, taken>>
buildVars == <<pages, graph_parents, graph_subcats, info>>
apiVars == <<position, params, kwargs, action, sent, raised>>

(***************************************************************************)
(* Titles.  A title is a string; Chars gives its code points, on which    *)
(* str.lower, string comparison and the language detection are computed.  *)
(***************************************************************************)
Titles == {"X", "Y", "a", "B", "b", "B (Dansk)"}

Chars(t) ==
    CASE t = "X" -> <<88>>
      [] t = "Y" -> <<89>>
      [] t = "a" -> <<97>>
      [] t = "B" -> <<66>>
      [] t = "b" -> <<98>>
      [] t = "B (Dansk)" -> <<66, 32, 40, 68, 97, 110, 115, 107, 41>>
      [] t = "Dansk" -> <<68, 97, 110, 115, 107>>

\* str.lower on one code point (the ASCII letters)
lower_char(c) == IF c >= 65 /\ c <= 90 THEN c + 32 ELSE c

\* str.lower
lower(s) == [i \in 1..Len(s) |-> lower_char(s[i])]

\* Python's `<` on two strings: lexicographic on code points; s is less at
\* the first position k where it has ended and t has not, or has the smaller
\* code point
str_lt(s, t) ==
    \E k \in 1..Len(t) :
        /\ \A j \in 1..(k - 1) : j <= Len(s) /\ s[j] = t[j]
        /\ k > Len(s) \/ s[k] < t[k]

\* ws.ArchWiki.lang: the known language names
language_names == {"Dansk"}

\* the language tag a title ends with, " (<language>)", or none
TagOf(s) ==
    {l \in language_names :
        LET suffix == <<32, 40>> \o Chars(l) \o <<41>>
        IN  /\ Len(s) > Len(suffix)
            /\ SubSeq(s, Len(s) - Len(suffix) + 1, Len(s)) = suffix}

\* lang.detect_language(title): (pure title, language)
detect_language(t) ==
    LET s == Chars(t)
        tags == TagOf(s)
    IN  IF tags = {}
        THEN <<s, "English">>
        ELSE LET l == CHOOSE x \in tags : TRUE
             IN  <<SubSeq(s, 1, Len(s) - Len(Chars(l)) - 3), l>>

(***************************************************************************)
(* cmp and the comparator of compare_components                            *)
(***************************************************************************)
None == [node |-> "", parent |-> "", path |-> <<>>]

\* `<` on the key tuples (-len(path), pure title)
key_lt(l, r) ==
    \/ -Len(l.path) < -Len(r.path)
    \/ /\ Len(l.path) = Len(r.path)
       /\ str_lt(detect_language(l.node)[1], detect_language(r.node)[1])

cmp(l, r) == IF key_lt(l, r) THEN -1 ELSE IF key_lt(r, l) THEN 1 ELSE 0

cmp_tuples(l, r) ==
    IF l = None /\ r = None THEN 0
    ELSE IF l = None THEN 1
    ELSE IF r = None THEN -1
    ELSE cmp(l, r)

(***************************************************************************)
(* walk                                                                    *)
(***************************************************************************)
\* sorted(children, key=str.lower): a stable insertion sort on the lowered
\* title; c goes after every element that is not greater
RECURSIVE insert_sorted(_, _)
insert_sorted(s, c) ==
    IF s = <<>> THEN <<c>>
    ELSE IF str_lt(lower(Chars(c)), lower(Chars(s[Len(s)])))
         THEN Append(insert_sorted(SubSeq(s, 1, Len(s) - 1), c), s[Len(s)])
         ELSE Append(s, c)

RECURSIVE sorted_lower(_)
sorted_lower(children) ==
    IF children = <<>> THEN <<>>
    ELSE insert_sorted(sorted_lower(SubSeq(children, 1, Len(children) - 1)),
                       children[Len(children)])

\* walk(graph, node) with the root put into visited
walk_rooted(n) ==
    [node |-> n, stack |-> <<>>, levels |-> <<>>, visited |-> {n}, st |-> "new"]

\* walk(graph, node): the generator object, its body not yet started.  stack
\* holds the frames of the nested generators, outermost first; levels and
\* visited are the list and the set all the frames share.
walk(n) ==
    [node |-> n, stack |-> <<>>, levels |-> <<>>, visited |-> {}, st |-> "new"]

\* lines 86-87 with the enumeration starting after the first child
frame_skipping(g, n) == [node |-> n, children |-> sorted_lower(g[n]), i |-> 1]

\* lines 86-87: a frame starts with the sorted children of its node and is at
\* index i of the enumeration
frame(g, n) == [node |-> n, children |-> sorted_lower(g[n]), i |-> 0]

\* line 88 without the test: every child is visited
not_visited_always(child, visited) == TRUE

\* line 88: `if child not in visited`
not_visited(child, visited) == child \notin visited

\* the body of walk from the top of its for loop up to the next yield or the end
RECURSIVE walk_run(_, _)
walk_run(g, w) ==
    LET n == Len(w.stack)
        f == w.stack[n]
    IN  IF f.i >= Len(f.children)
        THEN \* the for loop of the innermost frame is over
             IF n = 1
             THEN [w EXCEPT !.stack = <<>>, !.st = "done"]
             ELSE \* back in the caller after `yield from`: lines 93-94
                  LET p == w.stack[n - 1]
                  IN  walk_run(g, [w EXCEPT
                          !.stack = [SubSeq(w.stack, 1, n - 1)
                                        EXCEPT ![n - 1].i = p.i + 1],
                          !.levels = SubSeq(w.levels, 1, Len(w.levels) - 1),
                          !.visited = w.visited \ {p.children[p.i + 1]}])
        ELSE LET child == f.children[f.i + 1]
             IN  IF not_visited(child, w.visited)
                 THEN \* lines 89-91
                      [w EXCEPT !.levels = Append(@, f.i),
                                !.visited = @ \cup {child},
                                !.st = "yield"]
                 ELSE walk_run(g, [w EXCEPT !.stack[n].i = f.i + 1])

\* the (child, node) of the tuple a suspended walk has yielded; its third
\* component is the list `levels` itself, not a copy
walk_item(w) ==
    LET f == w.stack[Len(w.stack)]
    IN  [node |-> f.children[f.i + 1], parent |-> f.node]

\* next() on the generator: run to the next yield or to the end
walk_resume(g, w) ==
    CASE w.st = "new" -> walk_run(g, [w EXCEPT !.stack = <<frame(g, w.node)>>])
      [] w.st = "yield" ->
            \* line 92: yield from walk(graph, child, levels, visited)
            walk_run(g, [w EXCEPT !.stack = Append(@, frame(g, walk_item(w).node))])
      [] w.st = "done" -> w

\* the tuple a suspended walk has yielded, with the contents `levels` has now
walk_entry(w) ==
    [node |-> walk_item(w).node, parent |-> walk_item(w).parent,
     path |-> w.levels]

\* list(walk(graph, node)), each entry with the path it had when yielded
RECURSIVE walk_collect(_, _, _)
walk_collect(g, w, acc) ==
    LET w2 == walk_resume(g, w)
    IN  IF w2.st = "done" THEN acc
        ELSE walk_collect(g, w2, Append(acc, walk_entry(w2)))

walk_list(g, n) == walk_collect(g, walk(n), <<>>)

(***************************************************************************)
(* MyIterator                                                              *)
(***************************************************************************)
NoItem == [node |-> "", parent |-> ""]

\* MyIterator._cache_next_item
cache_next_item(g, m) ==
    LET w == walk_resume(g, m.iterable)
    IN  IF w.st = "done"
        THEN [m EXCEPT !.iterable = w, !.exhausted = TRUE]
        ELSE [m EXCEPT !.iterable = w, !.next_item = walk_item(w)]

\* MyIterator.__init__
MyIterator(g, iterable) ==
    cache_next_item(g, [iterable |-> iterable, exhausted |-> FALSE, next_item |-> NoItem])

\* MyIterator.__bool__ without the flag: always true
bool_unconditional(m) == TRUE

\* MyIterator.__bool__
bool(m) == ~m.exhausted

\* copy.deepcopy(self._next_item): the cached tuple holds the walk's own
\* `levels` list, so the copy has the list's contents at the time of the copy
deepcopy(m) ==
    [node |-> m.next_item.node, parent |-> m.next_item.parent,
     path |-> m.iterable.levels]

\* MyIterator.__next__ copying the item only after the next one was cached:
\* the copy has the contents `levels` has after the walk has moved on
next_copy_late(g, m) ==
    LET c == cache_next_item(g, m)
    IN  <<[node |-> m.next_item.node, parent |-> m.next_item.parent,
           path |-> c.iterable.levels], c>>

\* MyIterator.__next__ on an iterator that is not exhausted:
\* <<the item returned, the iterator afterwards>>
next(g, m) == <<deepcopy(m), cache_next_item(g, m)>>

\* a local that is not bound yet
Unbound ==
    [iterable |-> [node |-> "", stack |-> <<>>, levels |-> <<>>, visited |-> {},
                   st |-> "done"],
     exhausted |-> TRUE, next_item |-> NoItem]

(***************************************************************************)
(* The graphs: subcategory lists as build_graph makes them, by appending  *)
(* the page's title to the list of each of its categories.                 *)
(***************************************************************************)
MaxEdges == 4

\* <<category, page>>: page lists category among its categories
Memberships ==
    {<<"X", "a">>, <<"X", "B">>, <<"X", "b">>, <<"X", "Y">>,
     <<"Y", "a">>, <<"Y", "B (Dansk)">>, <<"Y", "X">>,
     <<"a", "B">>, <<"B", "a">>, <<"B", "b">>}

EmptyGraph == [t \in Titles |-> <<>>]

\* build_graph line 73: graph_subcats.setdefault(cat, []).append(page)
add_subcat(g, cat, page) == [g EXCEPT ![cat] = Append(@, page)]

\* the memberships build_graph can still add to g: no page is listed twice in
\* one category
Addable(g) ==
    {m \in Memberships : \A j \in 1..Len(g[m[1]]) : g[m[1]][j] # m[2]}

RECURSIVE GraphsUpTo(_)
GraphsUpTo(k) ==
    IF k = 0 THEN {EmptyGraph}
    ELSE LET S == GraphsUpTo(k - 1)
         IN  S \cup UNION {{add_subcat(g, m[1], m[2]) : m \in Addable(g)} : g \in S}

Graphs == GraphsUpTo(MaxEdges)

Roots == {"X", "Y"}

(***************************************************************************)
(* compare_components, statement by statement.  pc is "L<line>", or        *)
(*   "returned"  the return of line 116 (a generator's return value is not *)
(*               yielded: the sequence ends with nothing emitted),         *)
(*   "raised"    next() was called on an exhausted MyIterator outside the  *)
(*               try: StopIteration leaves the generator body, which ends  *)
(*               the sequence (as a RuntimeError since PEP 479),           *)
(*   "done"      after the final yield of line 148.                        *)
(***************************************************************************)
Ended == {"returned", "raised", "done"}

\* line 108: lgen = MyIterator(CategoryGraph.walk(graph, left))
New108 ==
    /\ pc = "L108"
    /\ lgen' = MyIterator(graph, walk(left))
    /\ pc' = "L109"
    /\ UNCHANGED <<graph, left, right, rgen, lval, rval, out, walkVars, iterVars, buildVars, apiVars>>

\* line 109: rgen = MyIterator(CategoryGraph.walk(graph, right))
New109 ==
    /\ pc = "L109"
    /\ rgen' = MyIterator(graph, walk(right))
    /\ pc' = "L112"
    /\ UNCHANGED <<graph, left, right, lgen, lval, rval, out, walkVars, iterVars, buildVars, apiVars>>

\* line 112, in the try: lval = next(lgen); StopIteration goes to line 114
Try112 ==
    /\ pc = "L112"
    /\ IF bool(lgen)
       THEN /\ lval' = next(graph, lgen)[1]
            /\ lgen' = next(graph, lgen)[2]
            /\ pc' = "L113"
       ELSE /\ UNCHANGED <<lval, lgen>>
            /\ pc' = "L116"
    /\ UNCHANGED <<graph, left, right, rgen, rval, out, walkVars, iterVars, buildVars, apiVars>>

\* line 113, in the try: rval = next(rgen); StopIteration goes to line 114
Try113 ==
    /\ pc = "L113"
    /\ IF bool(rgen)
       THEN /\ rval' = next(graph, rgen)[1]
            /\ rgen' = next(graph, rgen)[2]
            /\ pc' = "L118"
       ELSE /\ UNCHANGED <<rval, rgen>>
            /\ pc' = "L116"
    /\ UNCHANGED <<graph, left, right, lgen, lval, out, walkVars, iterVars, buildVars, apiVars>>

\* line 116 as `yield None, None`: the pair becomes an element of the sequence
Return116_yielding ==
    /\ pc = "L116"
    /\ out' = Append(out, <<None, None>>)
    /\ pc' = "returned"
    /\ UNCHANGED <<graph, left, right, lgen, rgen, lval, rval, walkVars, iterVars, buildVars, apiVars>>

\* line 116: `return None, None` in a generator ends the sequence; the value
\* returned is not an element of it
Return116 ==
    /\ pc = "L116"
    /\ pc' = "returned"
    /\ UNCHANGED <<graph, left, right, lgen, rgen, lval, rval, out, walkVars, iterVars, buildVars, apiVars>>

\* a loop test: control goes to `yes` or to `no`
Test(at, cond, yes, no) ==
    /\ pc = at
    /\ pc' = IF cond THEN yes ELSE no
    /\ UNCHANGED <<graph, left, right, lgen, rgen, lval, rval, out, walkVars, iterVars, buildVars, apiVars>>

\* a yield statement: the pair is emitted and control stops before `then`
Yield(at, pair, then) ==
    /\ pc = at
    /\ out' = Append(out, pair)
    /\ pc' = then
    /\ UNCHANGED <<graph, left, right, lgen, rgen, lval, rval, walkVars, iterVars, buildVars, apiVars>>

\* lval = next(lgen)
NextLeft(at, then) ==
    /\ pc = at
    /\ IF bool(lgen)
       THEN /\ lval' = next(graph, lgen)[1]
            /\ lgen' = next(graph, lgen)[2]
            /\ pc' = then
       ELSE /\ UNCHANGED <<lval, lgen>>
            /\ pc' = "raised"
    /\ UNCHANGED <<graph, left, right, rgen, rval, out, walkVars, iterVars, buildVars, apiVars>>

\* rval = next(rgen)
NextRight(at, then) ==
    /\ pc = at
    /\ IF bool(rgen)
       THEN /\ rval' = next(graph, rgen)[1]
            /\ rgen' = next(graph, rgen)[2]
            /\ pc' = then
       ELSE /\ UNCHANGED <<rval, rgen>>
            /\ pc' = "raised"
    /\ UNCHANGED <<graph, left, right, lgen, lval, out, walkVars, iterVars, buildVars, apiVars>>

While118 == Test("L118", bool(lgen) /\ bool(rgen), "L119", "L130")
While119 == Test("L119", cmp_tuples(lval, rval) < 0, "L120", "L122")
Yield120 == Yield("L120", <<lval, None>>, "L121")
\* line 121 left out: the left side is not advanced
Next121_skipped == Test("L121", TRUE, "L119", "L119")
Next121 == NextLeft("L121", "L119")
While122 == Test("L122", cmp_tuples(lval, rval) = 0, "L123", "L126")
Yield123 == Yield("L123", <<lval, rval>>, "L124")
Next124 == NextLeft("L124", "L125")
\* line 125 left out: the right side is not advanced
Next125_skipped == Test("L125", TRUE, "L122", "L122")
Next125 == NextRight("L125", "L122")
While126 == Test("L126", cmp_tuples(lval, rval) > 0, "L127", "L118")
Yield127 == Yield("L127", <<None, rval>>, "L128")
Next128 == NextRight("L128", "L126")

While130 == Test("L130", bool(lgen), "L131", "L139")
While131 == Test("L131", cmp_tuples(lval, rval) < 0, "L132", "L134")
Yield132 == Yield("L132", <<lval, None>>, "L133")
Next133 == NextLeft("L133", "L131")
While134 == Test("L134", cmp_tuples(lval, rval) = 0, "L135", "L130")
Yield135 == Yield("L135", <<lval, rval>>, "L136")
Next136 == NextLeft("L136", "L137")
Assign137 ==
    /\ pc = "L137"
    /\ rval' = None
    /\ pc' = "L134"
    /\ UNCHANGED <<graph, left, right, lgen, rgen, lval, out, walkVars, iterVars, buildVars, apiVars>>

While139 == Test("L139", bool(rgen), "L140", "L148")
While140 == Test("L140", cmp_tuples(lval, rval) = 0, "L141", "L144")
Yield141 == Yield("L141", <<lval, rval>>, "L142")
Assign142 ==
    /\ pc = "L142"
    /\ lval' = None
    /\ pc' = "L143"
    /\ UNCHANGED <<graph, left, right, lgen, rgen, rval, out, walkVars, iterVars, buildVars, apiVars>>
Next143 == NextRight("L143", "L140")
While144 == Test("L144", cmp_tuples(lval, rval) > 0, "L145", "L139")
Yield145 == Yield("L145", <<None, rval>>, "L146")
Next146 == NextRight("L146", "L144")

Yield148 == Yield("L148", <<lval, rval>>, "done")

(***************************************************************************)
(* walk on its own: a consumer pulling the entries of walk(graph, node)    *)
(***************************************************************************)
WalkNext ==
    /\ pc = "walk"
    /\ gen' = walk_resume(graph, gen)
    /\ IF gen'.st = "done"
       THEN \* StopIteration: the consumer's loop is over
            /\ pc' = "end"
            /\ UNCHANGED entries
       ELSE /\ pc' = "walk"
            /\ entries' = Append(entries, walk_entry(gen'))
    /\ UNCHANGED <<graph, node, left, right, lgen, rgen, lval, rval, out,
                   iterVars, buildVars, apiVars>>

(***************************************************************************)
(* Specifications                                                          *)
(***************************************************************************)
\* compare_components(graph, left, right) has been called: nothing has run yet
\* an empty dict
EmptyDict == [t \in {} |-> <<>>]

\* the parts of the state that belong to the operations not running
NoIterator == it = Unbound /\ taken = <<>>
NoBuild ==
    /\ pages = <<>>
    /\ graph_parents = EmptyDict
    /\ graph_subcats = EmptyDict
    /\ info = EmptyDict
\* the callers of the methods of the Connection
Callers == {"caller 1", "caller 2"}
\* the value of params when no call_api runs
NoParams == [kind |-> "None", dict |-> EmptyDict, is_kwargs |-> FALSE]
NoCall ==
    /\ position = [c \in Callers |-> "idle"]
    /\ params = [c \in Callers |-> NoParams]
    /\ kwargs = [c \in Callers |-> EmptyDict]
    /\ action = [c \in Callers |-> "None"]
    /\ sent = <<>>
    /\ raised = [c \in Callers |-> "None"]
NoCompare ==
    /\ lgen = Unbound /\ rgen = Unbound
    /\ lval = None /\ rval = None
    /\ out = <<>>
NoWalk == gen = Unbound.iterable /\ entries = <<>>

Init ==
    /\ graph \in Graphs
    /\ left \in Roots
    /\ right \in Roots
    /\ pc = "L108"
    /\ lgen = Unbound /\ rgen = Unbound
    /\ lval = None /\ rval = None
    /\ out = <<>>
    /\ node = left
    /\ gen = Unbound.iterable
    /\ entries = <<>>
    /\ NoIterator /\ NoBuild /\ NoCall

Next ==
    \/ New108 \/ New109 \/ Try112 \/ Try113 \/ Return116
    \/ While118 \/ While119 \/ Yield120 \/ Next121
    \/ While122 \/ Yield123 \/ Next124 \/ Next125
    \/ While126 \/ Yield127 \/ Next128
    \/ While130 \/ While131 \/ Yield132 \/ Next133
    \/ While134 \/ Yield135 \/ Next136 \/ Assign137
    \/ While139 \/ While140 \/ Yield141 \/ Assign142 \/ Next143
    \/ While144 \/ Yield145 \/ Next146
    \/ Yield148

Spec == Init /\ [][Next]_vars

\* the lines of compare_components
Lines ==
    {"L108", "L109", "L112", "L113", "L116", "L118", "L119", "L120", "L121",
     "L122", "L123", "L124", "L125", "L126", "L127", "L128", "L130", "L131",
     "L132", "L133", "L134", "L135", "L136", "L137", "L139", "L140", "L141",
     "L142", "L143", "L144", "L145", "L146", "L148"}

\* control moves on.  Every step of Next moves control, and a step of Next is
\* possible exactly when the generator has not ended, so weak fairness of
\* Advance is weak fairness of Next.
Advance == pc \in Lines /\ pc' \in Lines \cup Ended /\ pc' # pc

\* the consumer keeps pulling and the interpreter keeps running the body:
\* while the generator has not ended, control eventually moves on
FairSpec == Spec /\ WF_pc(Advance)

\* walk(graph, node) has been called: nothing has run yet
WalkInit ==
    /\ graph \in Graphs
    /\ node \in Titles
    /\ gen = walk(node)
    /\ entries = <<>>
    /\ left = node /\ right = node
    /\ pc = "walk"
    /\ NoCompare /\ NoIterator /\ NoBuild /\ NoCall

(***************************************************************************)
(* MyIterator on its own: a consumer that tests and advances an iterator  *)
(* over walk(graph, node) in any order.  pc is "iter" after construction  *)
(* and after an item was returned, "True" or "False" after a truth test,  *)
(* "StopIteration" after __next__ has raised.                              *)
(***************************************************************************)
IterPcs == {"iter", "True", "False", "StopIteration"}

\* bool(it): MyIterator.__bool__
It_bool ==
    /\ pc \in IterPcs
    /\ pc' = IF bool(it) THEN "True" ELSE "False"
    /\ UNCHANGED <<graph, left, right, node, it, taken,
                   lgen, rgen, lval, rval, out, gen, entries, buildVars, apiVars>>

\* next(it): MyIterator.__next__
It_next ==
    /\ pc \in IterPcs
    /\ IF it.exhausted
       THEN /\ pc' = "StopIteration"
            /\ UNCHANGED <<it, taken>>
       ELSE /\ pc' = "iter"
            /\ taken' = Append(taken, next(graph, it)[1])
            /\ it' = next(graph, it)[2]
    /\ UNCHANGED <<graph, left, right, node,
                   lgen, rgen, lval, rval, out, gen, entries, buildVars, apiVars>>

\* it = MyIterator(walk(graph, node))
IterInit ==
    /\ graph \in Graphs
    /\ node \in Titles
    /\ left = node /\ right = node
    /\ it = MyIterator(graph, walk(node))
    /\ taken = <<>>
    /\ pc = "iter"
    /\ NoCompare /\ NoWalk /\ NoBuild /\ NoCall

IterSpec == IterInit /\ [][It_bool \/ It_next]_vars

WalkSpec == WalkInit /\ [][WalkNext]_vars

\* the consumer's loop moves on: it gets one more entry or it ends.  Every
\* step of WalkNext is such a step, and one is possible exactly while the loop
\* is running.
WalkAdvance ==
    /\ pc = "walk"
    /\ \/ pc' = "end" /\ entries' = entries
       \/ pc' = "walk" /\ Len(entries') = Len(entries) + 1

\* the consumer keeps pulling entries until the walk ends
FairWalkSpec == WalkSpec /\ WF_<<pc, entries>>(WalkAdvance)

(***************************************************************************)
(* build_graph.  A page of the API generator is a record; has_categories  *)
(* and has_categoryinfo say whether the page dictionary has the key.  pc   *)
(* is "build" while the for loop runs and "built" after the return.        *)
(***************************************************************************)
MaxPages == 2
MaxCats == 2

\* titles of the pages of the category namespace, and the titles their
\* "categories" lists can name: "a" is a category without a page
PageTitles == {"X", "Y"}
CatTitles == {"X", "a"}

RECURSIVE SeqsUpTo(_, _)
SeqsUpTo(S, n) ==
    IF n = 0 THEN {<<>>}
    ELSE LET T == SeqsUpTo(S, n - 1)
         IN  T \cup {Append(s, x) : s \in T, x \in S}

\* the default of line 75 and a "categoryinfo" of a category that is not empty
ZeroInfo == [files |-> 0, pages |-> 0, subcats |-> 0, size |-> 0]
SomeInfo == [files |-> 0, pages |-> 2, subcats |-> 1, size |-> 3]

Pages ==
    {[title |-> t, has_categories |-> TRUE, categories |-> cs,
      has_categoryinfo |-> hi, categoryinfo |-> IF hi THEN SomeInfo ELSE ZeroInfo] :
        t \in PageTitles, cs \in SeqsUpTo(CatTitles, MaxCats), hi \in BOOLEAN}
    \cup
    {[title |-> t, has_categories |-> FALSE, categories |-> <<>>,
      has_categoryinfo |-> hi, categoryinfo |-> IF hi THEN SomeInfo ELSE ZeroInfo] :
        t \in PageTitles, hi \in BOOLEAN}

\* dict.setdefault(k, v): the dict afterwards
setdefault(d, k, v) ==
    IF k \in DOMAIN d THEN d
    ELSE [x \in DOMAIN d \cup {k} |-> IF x = k THEN v ELSE d[x]]

\* list.extend with only the first element of xs
extend_first(l, xs) == IF xs = <<>> THEN l ELSE Append(l, xs[1])

\* list.extend
extend(l, xs) == l \o xs

\* dict.update
update(i, ci) ==
    [k \in DOMAIN i \cup DOMAIN ci |-> IF k \in DOMAIN ci THEN ci[k] ELSE i[k]]

\* line 71: graph_parents.setdefault(title, []).extend(categories)
add_parents(g, title, cats) ==
    LET d == setdefault(g, title, <<>>)
    IN  [d EXCEPT ![title] = extend(@, cats)]

\* lines 72-73: for cat in page["categories"]: setdefault(cat, []).append(title)
RECURSIVE add_subcats(_, _, _)
add_subcats(g, cats, title) ==
    IF cats = <<>> THEN g
    ELSE add_subcats(add_subcat(setdefault(g, cats[1], <<>>), cats[1], title),
                     Tail(cats), title)

\* lines 75-77
add_info(inf, page) ==
    LET d == setdefault(inf, page.title, ZeroInfo)
    IN  IF page.has_categoryinfo
        THEN [d EXCEPT ![page.title] = update(@, page.categoryinfo)]
        ELSE d

\* one iteration of the for loop of line 69, on the page the generator yields
Build_page ==
    /\ pc = "build"
    /\ Len(pages) < MaxPages
    /\ \E page \in Pages :
          /\ pages' = Append(pages, page)
          /\ IF page.has_categories
             THEN /\ graph_parents' = add_parents(graph_parents, page.title, page.categories)
                  /\ graph_subcats' = add_subcats(graph_subcats, page.categories, page.title)
             ELSE UNCHANGED <<graph_parents, graph_subcats>>
          /\ info' = add_info(info, page)
    /\ UNCHANGED <<graph, cmpVars, walkVars, iterVars, apiVars>>

\* line 78: the generator is exhausted, build_graph returns
Build_return ==
    /\ pc = "build"
    /\ pc' = "built"
    /\ UNCHANGED <<graph, left, right, lgen, rgen, lval, rval, out,
                   walkVars, iterVars, buildVars, apiVars>>

BuildInit ==
    /\ pc = "build"
    /\ NoBuild
    /\ graph = EmptyGraph /\ left = "X" /\ right = "X" /\ node = "X"
    /\ NoCompare /\ NoWalk /\ NoIterator /\ NoCall

BuildSpec == BuildInit /\ [][Build_page \/ Build_return]_vars

(***************************************************************************)
(* Connection (ws/core/connection.py): the public methods call_api,       *)
(* call_index and request of one Connection.  A call waits in the wrapper  *)
(* of line 133 and blocks in line 146 until the server has answered, and   *)
(* other calls on the same Connection (from another thread, or from a      *)
(* response hook of the session) run meanwhile: each caller has its own    *)
(* position and locals.  sent lists the requests handed to self.request    *)
(* since the Connection was made, each with the method that handed it      *)
(* over.  position[c] is "idle" before the first call of caller c,         *)
(* "request" or "call_index" while such a call has handed its request     *)
(* over and has not ended, the line of call_api that runs next while       *)
(* call_api runs, and                                                      *)
(* "returned" or "raised" after a call; raised[c] is the exception the     *)
(* last call of c ended with.  params[c] is the argument of call_api and   *)
(* then the local: kind says whether it is None, a dict or something else  *)
(* (a tuple), dict holds the dict, is_kwargs says that it is the kwargs    *)
(* dict itself.  The locals are gone when call_api has ended.              *)
(***************************************************************************)
MaxRequests == 2

API_ACTIONS ==
    {"login", "logout", "createaccount", "query", "expandtemplates", "parse",
     "opensearch", "feedcontributions", "feedwatchlist", "help", "paraminfo", "rsd",
     "compare", "tokens", "purge", "setnotificationtimestamp", "rollback", "delete",
     "undelete", "protect", "block", "unblock", "move", "edit", "upload", "filerevert",
     "emailuser", "watch", "patrol", "import", "userrights", "options", "imagerotate"}

POST_ACTIONS ==
    {"login", "createaccount", "purge", "setnotificationtimestamp", "rollback",
     "delete", "undelete", "protect", "block", "unblock", "move", "edit", "upload",
     "filerevert", "emailuser", "watch", "patrol", "import", "userrights", "options",
     "imagerotate"}

\* the values of the "action" parameter the callers pass: one sent by GET, one
\* sent by POST, one that is no action of the API
Actions == {"query", "edit", "wrong action"}

\* the dicts of API parameters the callers pass: without an action (and with
\* another parameter), or with one
Dicts == {[titles |-> "Main page"]} \cup {[x \in {"action"} |-> a] : a \in Actions}

Arguments ==
    {[kind |-> "None", dict |-> EmptyDict, is_kwargs |-> FALSE],
     [kind |-> "tuple", dict |-> EmptyDict, is_kwargs |-> FALSE]}
    \cup {[kind |-> "dict", dict |-> d, is_kwargs |-> FALSE] : d \in Dicts}

\* the ways call_api is called: with params and no keyword arguments, with
\* keyword arguments only, and with a valid params and keyword arguments
\* that have no valid action
CallArguments ==
    {[params |-> p, kwargs |-> EmptyDict] : p \in Arguments \ {NoParams}}
    \cup {[params |-> NoParams, kwargs |-> k] : k \in Dicts}
    \cup {[params |-> [kind |-> "dict", dict |-> [action |-> "query"], is_kwargs |-> FALSE],
           kwargs |-> [action |-> "wrong action"]]}

\* the parameters the callers of call_index and request pass
IndexDicts == {[title |-> "Main page", action |-> "wrong action"]}

\* what request can raise: self.session.request (line 146) the exceptions of
\* requests, "RequestException" standing for those not named here;
\* raise_for_status (line 149) HTTPError; self.session.cookies.save()
\* (line 152) FileNotFoundError or another OSError, ValueError when the
\* cookiejar given at lines 68-69 is a FileCookieJar without a filename,
\* OverflowError when a cookie of the answer expires out of the range of
\* time_t, NotImplementedError when the cookiejar is of the base class
\* FileCookieJar.  "Exception" stands for an exception of any other class
\* that the calls into requests and http.cookiejar raise.
RequestErrors ==
    {"ConnectionError", "Timeout", "TooManyRedirects", "MissingSchema",
     "ChunkedEncodingError", "RequestException", "HTTPError",
     "FileNotFoundError", "OSError", "ValueError", "OverflowError",
     "NotImplementedError", "Exception"}

\* the body of a response, by what lines 191-212 read of it.  kind: it is not
\* JSON, it is JSON nested too deep for result.json(), or the JSON value it is.
\* has_error, has_warnings: `"error" in
\* result`, `"warnings" in result` (a key of an object, an element of a list,
\* a part of a string).  error: the value of result["error"], an object with
\* or without the key "*" or no object.  warnings: the value of
\* result["warnings"]: no object; an object of objects that all have "*"; an
\* object with a warning that is an object without "*"; an object with a
\* warning that is no object.  has_action: the object has the key of the
\* action.
Body(kind, has_error, error, has_warnings, warnings, has_action) ==
    [kind |-> kind, has_error |-> has_error, error |-> error,
     has_warnings |-> has_warnings, warnings |-> warnings,
     has_action |-> has_action]

ErrorValues == {"object with *", "object without *", "no object"}
WarningsValues ==
    {"no object", "warnings with *", "a warning without *", "a warning that is no object"}

Bodies ==
    {Body(k, FALSE, "no object", FALSE, "no object", FALSE) :
        k \in {"not json", "too deep", "null", "boolean", "number"}}
    \cup {Body(k, e, "no object", w, "no object", FALSE) :
            k \in {"string", "list"}, e \in BOOLEAN, w \in BOOLEAN}
    \cup {Body("object", TRUE, e, FALSE, "no object", FALSE) : e \in ErrorValues}
    \cup {Body("object", FALSE, "no object", TRUE, w, a) :
            w \in WarningsValues, a \in BOOLEAN}
    \cup {Body("object", FALSE, "no object", FALSE, "no object", a) : a \in BOOLEAN}

\* lines 191-212: the exception call_api ends with on this body, or "None"
\* when it returns
read(b, act, expand_result) ==
    IF b.kind = "not json" THEN "APIJsonError"                  \* lines 192-194
    ELSE IF b.kind = "too deep" THEN "RecursionError"           \* line 192
    ELSE IF b.kind \in {"null", "boolean", "number"}
    THEN "TypeError"                                            \* line 199
    ELSE IF b.has_error
    THEN IF b.kind # "object" THEN "TypeError"                  \* lines 202, 203
         ELSE IF act = "help"
         THEN CASE b.error = "object with *" -> "None"          \* line 202
                [] b.error = "object without *" -> "KeyError"
                [] b.error = "no object" -> "TypeError"
         ELSE "APIError"                                        \* line 203
    ELSE IF b.has_warnings /\ b.kind # "object"
    THEN "TypeError"                                            \* line 206
    ELSE IF b.has_warnings /\ b.warnings = "no object"
    THEN "AttributeError"                                       \* line 206
    ELSE IF b.has_warnings /\ b.warnings = "a warning without *"
    THEN "KeyError"                                             \* line 207
    ELSE IF b.has_warnings /\ b.warnings = "a warning that is no object"
    THEN "TypeError"                                            \* line 207
    ELSE IF expand_result
    THEN IF b.kind # "object" THEN "TypeError"                  \* line 211
         ELSE IF b.has_action THEN "None" ELSE "KeyError"
    ELSE "None"                                                 \* line 212

\* the other variables of a step of Connection
NotConnection ==
    <<graph, left, right, pc, lgen, rgen, lval, rval, out, walkVars, iterVars, buildVars>>

\* no call of the caller is running
Idle == {"idle", "returned", "raised"}

\* the calls that may still hand a request over, those of caller c apart
Pending(c) == {d \in Callers \ {c} : position[d] \in {"L173", "L179", "L184"}}

\* the log has room for the request of a new call
Room(c) == Len(sent) + Cardinality(Pending(c)) < MaxRequests

\* a call of caller c ends with exception e, or returns when e is "None"
Ends(c, e) ==
    /\ raised' = [raised EXCEPT ![c] = e]
    /\ position' = [position EXCEPT ![c] = IF e = "None" THEN "returned" ELSE "raised"]

\* the locals of call_api are gone
Forgotten(c) ==
    /\ params' = [params EXCEPT ![c] = NoParams]
    /\ kwargs' = [kwargs EXCEPT ![c] = EmptyDict]
    /\ action' = [action EXCEPT ![c] = "None"]

\* request(method, url, params=d) is called by the user: line 133, the
\* request is handed over and the call waits (wrapper) and blocks (line 146)
Request(c) ==
    /\ position[c] \in Idle
    /\ Room(c)
    /\ \E method \in {"GET", "POST"}, d \in IndexDicts :
          sent' = Append(sent, [method |-> method, url |-> "api_url", via |-> "params",
                                params |-> d, by |-> "request"])
    /\ position' = [position EXCEPT ![c] = "request"]
    /\ raised' = [raised EXCEPT ![c] = "None"]
    /\ UNCHANGED <<params, kwargs, action, NotConnection>>

\* call_index(method, params=d): line 225 hands the request over
Call_index(c) ==
    /\ position[c] \in Idle
    /\ Room(c)
    /\ \E d \in IndexDicts :
          sent' = Append(sent, [method |-> "GET", url |-> "index_url", via |-> "params",
                                params |-> d, by |-> "call_index"])
    /\ position' = [position EXCEPT ![c] = "call_index"]
    /\ raised' = [raised EXCEPT ![c] = "None"]
    /\ UNCHANGED <<params, kwargs, action, NotConnection>>

\* lines 146-154 for request and call_index: self.request raises or returns
Request154(c) ==
    /\ position[c] \in {"request", "call_index"}
    /\ \E e \in RequestErrors \cup {"None"} : Ends(c, e)
    /\ UNCHANGED <<params, kwargs, action, sent, NotConnection>>

\* call_api(params, **kwargs) is called: line 156
Call156(c) ==
    /\ position[c] \in Idle
    /\ Room(c)
    /\ \E a \in CallArguments :
          /\ params' = [params EXCEPT ![c] = a.params]
          /\ kwargs' = [kwargs EXCEPT ![c] = a.kwargs]
    /\ position' = [position EXCEPT ![c] = "L173"]
    /\ raised' = [raised EXCEPT ![c] = "None"]
    /\ UNCHANGED <<action, sent, NotConnection>>

\* lines 173-176
Call173(c) ==
    /\ position[c] = "L173"
    /\ IF params[c].kind = "None"
       THEN /\ params' = [params EXCEPT ![c] =
                            [kind |-> "dict", dict |-> kwargs[c], is_kwargs |-> TRUE]]
            /\ position' = [position EXCEPT ![c] = "L179"]
            /\ UNCHANGED <<kwargs, action, raised>>
       ELSE IF params[c].kind # "dict"
       THEN /\ Ends(c, "ValueError")
            /\ Forgotten(c)
       ELSE /\ position' = [position EXCEPT ![c] = "L179"]
            /\ UNCHANGED <<params, kwargs, action, raised>>
    /\ UNCHANGED <<sent, NotConnection>>

\* lines 179-181 without the test of line 180
Call179_unchecked(c) ==
    /\ position[c] = "L179"
    /\ LET d == setdefault(params[c].dict, "action", "help")
       IN  /\ params' = [params EXCEPT ![c].dict = d]
           /\ kwargs' = IF params[c].is_kwargs THEN [kwargs EXCEPT ![c] = d] ELSE kwargs
           /\ action' = [action EXCEPT ![c] = d["action"]]
    /\ position' = [position EXCEPT ![c] = "L184"]
    /\ UNCHANGED <<sent, raised, NotConnection>>

\* lines 179-181; setdefault changes kwargs too when params is that dict
Call179(c) ==
    /\ position[c] = "L179"
    /\ LET d == setdefault(params[c].dict, "action", "help")
       IN  IF d["action"] \notin API_ACTIONS
           THEN /\ Ends(c, "APIWrongAction")
                /\ Forgotten(c)
           ELSE /\ params' = [params EXCEPT ![c].dict = d]
                /\ kwargs' = IF params[c].is_kwargs
                             THEN [kwargs EXCEPT ![c] = d] ELSE kwargs
                /\ action' = [action EXCEPT ![c] = d["action"]]
                /\ position' = [position EXCEPT ![c] = "L184"]
                /\ UNCHANGED raised
    /\ UNCHANGED <<sent, NotConnection>>

\* lines 184-189: the request is handed to self.request
Call184(c) ==
    /\ position[c] = "L184"
    /\ sent' = Append(sent,
          IF action[c] \in POST_ACTIONS
          THEN [method |-> "POST", url |-> "api_url", via |-> "data",
                params |-> params[c].dict, by |-> "call_api"]
          ELSE [method |-> "GET", url |-> "api_url", via |-> "params",
                params |-> params[c].dict, by |-> "call_api"])
    /\ position' = [position EXCEPT ![c] = "L191"]
    /\ UNCHANGED <<params, kwargs, action, raised, NotConnection>>

\* lines 187-212: self.request raises, or it returns and the body is read
Call191(c) ==
    /\ position[c] = "L191"
    /\ \/ \E e \in RequestErrors : Ends(c, e)
       \/ \E body \in Bodies, expand_result \in BOOLEAN :
             Ends(c, read(body, action[c], expand_result))
    /\ Forgotten(c)
    /\ UNCHANGED <<sent, NotConnection>>

\* the Connection has been made
ApiInit ==
    /\ pc = "connection"
    /\ NoCall
    /\ graph = EmptyGraph /\ left = "X" /\ right = "X" /\ node = "X"
    /\ NoCompare /\ NoWalk /\ NoIterator /\ NoBuild

ApiSpec ==
    ApiInit /\ [][\E c \in Callers :
                     \/ Request(c) \/ Call_index(c) \/ Request154(c)
                     \/ Call156(c) \/ Call173(c) \/ Call179(c)
                     \/ Call184(c) \/ Call191(c)]_vars

(***************************************************************************)
(* Properties                                                              *)
(***************************************************************************)
LeftWalk == walk_list(graph, left)
RightWalk == walk_list(graph, right)

\* the left (k = 1) or right (k = 2) sides of the pairs emitted, absent sides dropped
Side(k) == SelectSeq([i \in 1..Len(out) |-> out[i][k]], LAMBDA e : e # None)

\* the entries of s as a set
Range(s) == {s[i] : i \in 1..Len(s)}

\* the node titles of a walk
Nodes(w) == {w[i].node : i \in 1..Len(w)}

\* In the formulas below lw and rw are the two walks, computed once per state.

\* C1: for every graph and pair of roots the sequence compare_components
\* produces is finite: a consumer that keeps pulling eventually reaches its
\* end; no loop of the merge runs forever without emitting or ending.
C1_Terminates == <>(pc \in Ended)

\* C2: when the diff of two non-empty walks has ended, every entry of
\* walk(graph, left) and every entry of walk(graph, right) has appeared in an
\* emitted pair.
C2_NothingLost ==
    pc \in Ended =>
        \A lw \in {LeftWalk}, rw \in {RightWalk} :
            (lw # <<>> /\ rw # <<>>)
                => /\ Range(lw) \subseteq Range(Side(1))
                   /\ Range(rw) \subseteq Range(Side(2))

\* C3: when both walks are non-empty, next() is never called on an exhausted
\* MyIterator by the merge loops.
C3_NoExhaustedAdvance ==
    pc = "raised" => (LeftWalk = <<>> \/ RightWalk = <<>>)

\* C4: with the same root on both sides, the pairs emitted are exactly the
\* entries of walk(graph, root), each paired with itself, in walk order; no
\* pair has an absent side.
C4_SameRootPairs ==
    left = right =>
        \A lw \in {LeftWalk} :
            /\ Len(out) <= Len(lw)
            /\ \A i \in 1..Len(out) : out[i] = <<lw[i], lw[i]>>
            /\ pc \in Ended => Len(out) = Len(lw)

\* a diff with the same root on both sides has ended after three pairs
C4_Witness == left = right /\ pc \in Ended /\ Len(out) >= 3

\* the two subtrees have no node in common
Disjoint(lw, rw) == left # right /\ Nodes(lw) \cap Nodes(rw) = {}

\* no left entry has the comparator key of a right entry
NoKeyCollision(lw, rw) ==
    \A i \in 1..Len(lw), j \in 1..Len(rw) : cmp(lw[i], rw[j]) # 0

\* C5: for disjoint subtrees without a common comparator key, the diff of two
\* non-empty walks emits only one-sided pairs, and each side's entries appear
\* exactly once, in that side's walk order.
C5_DisjointOneSided ==
    pc \in Ended =>
        \A lw \in {LeftWalk}, rw \in {RightWalk} :
            (Disjoint(lw, rw) /\ NoKeyCollision(lw, rw) /\ lw # <<>> /\ rw # <<>>)
                => /\ \A i \in 1..Len(out) : out[i][1] = None \/ out[i][2] = None
                   /\ Side(1) = lw
                   /\ Side(2) = rw

\* C6: on two roots without children compare_components emits exactly one
\* pair, (None, None), and ends.
C6_EmptyRootsOnePair ==
    (pc \in Ended /\ graph[left] = <<>> /\ graph[right] = <<>>)
        => out = << <<None, None>> >>

\* C7: with a left root without children and a non-empty right walk the pairs
\* emitted are (None, r) for every right entry r in walk order, and nothing
\* else; symmetrically for a right root without children.
C7_OneEmptyRoot ==
    pc \in Ended =>
        \A lw \in {LeftWalk}, rw \in {RightWalk} :
            /\ (graph[left] = <<>> /\ rw # <<>>)
                  => out = [i \in 1..Len(rw) |-> <<None, rw[i]>>]
            /\ (graph[right] = <<>> /\ lw # <<>>)
                  => out = [i \in 1..Len(lw) |-> <<lw[i], None>>]

\* C8: when at least one of the two walks is non-empty, no pair with both
\* sides absent is ever emitted, the final yield of line 148 included.
C8_NeverBothAbsent ==
    (\E i \in 1..Len(out) : out[i] = <<None, None>>)
        => (LeftWalk = <<>> /\ RightWalk = <<>>)

\* line 148 has emitted a pair with one side absent
C8_Witness ==
    /\ pc = "done"
    /\ out[Len(out)][1] = None \/ out[Len(out)][2] = None

\* the nodes on the path from the root to the node whose children a suspended
\* walk is visiting: the root and the ancestors
OnPath(w) == {w.stack[i].node : i \in 1..Len(w.stack)}

\* C9: walk never emits an entry for a child that is already on the current
\* path from the root, the root included; on children[X] = [Y],
\* children[Y] = [X] the walk from X emits exactly (Y, X, [0]) and ends.
C9_NoBackEdgeEntry ==
    /\ gen.st = "yield" => walk_item(gen).node \notin OnPath(gen)
    /\ (/\ graph = [EmptyGraph EXCEPT !["X"] = <<"Y">>, !["Y"] = <<"X">>]
        /\ node = "X"
        /\ pc = "end")
          => entries = << [node |-> "Y", parent |-> "X", path |-> <<0>>] >>

\* the nodes emitted along the active path of a suspended walk, outermost first
Emitted(w) ==
    [i \in 1..Len(w.stack) |-> w.stack[i].children[w.stack[i].i + 1]]

\* no node is emitted twice along the active path
PathDistinct ==
    gen.st = "yield" =>
        \A i, j \in 1..Len(gen.stack) :
            i # j => Emitted(gen)[i] # Emitted(gen)[j]

\* C10: for every graph, cyclic or not, and every root the walk ends after
\* finitely many entries, and along the active path no node is emitted more
\* than once.
C10_WalkFinite == []PathDistinct /\ <>(pc = "end")

\* a walk over a cycle has ended, after going at least two levels deep
C10_Witness ==
    /\ pc = "end"
    /\ \E i, j \in 1..Len(entries) :
          /\ entries[j].parent = entries[i].node
          /\ \E k \in 1..Len(graph[entries[j].node]) :
                graph[entries[j].node][k] = entries[i].node

\* the titles stored in a list
Children(g, t) == {g[t][k] : k \in 1..Len(g[t])}

\* the nodes reachable from the nodes of S along children edges
RECURSIVE ReachableFrom(_, _)
ReachableFrom(g, S) ==
    LET T == S \cup UNION {Children(g, t) : t \in S}
    IN  IF T = S THEN S ELSE ReachableFrom(g, T)

Descendants(g, n) ==
    IF Children(g, n) = {} THEN {} ELSE ReachableFrom(g, Children(g, n))

Acyclic(g) == \A t \in Titles : t \notin Descendants(g, t)

\* the number of paths from n to d along children edges, in an acyclic graph
RECURSIVE PathCount(_, _, _, _)
PathCount(g, n, d, k) ==
    IF k > Len(g[n]) THEN 0
    ELSE (IF g[n][k] = d THEN 1 ELSE 0)
         + PathCount(g, g[n][k], d, 1)
         + PathCount(g, n, d, k + 1)

\* how many of the entries were emitted for node d
Times(d) == Cardinality({i \in 1..Len(entries) : entries[i].node = d})

\* C11 as stated: for an acyclic graph, walk emits each descendant of the
\* root exactly once and the emitted nodes are exactly the descendants.
C11_EachDescendantOnce ==
    (pc = "end" /\ Acyclic(graph)) =>
        /\ Nodes(entries) = Descendants(graph, node)
        /\ \A d \in Descendants(graph, node) : Times(d) = 1

\* C11 amended: for an acyclic graph, walk emits one entry for every path
\* from the root to a descendant, so a descendant with k paths from the root
\* is emitted k times, and the emitted nodes are exactly the descendants.
C11_OncePerPath ==
    (pc = "end" /\ Acyclic(graph)) =>
        /\ Nodes(entries) = Descendants(graph, node)
        /\ \A d \in Titles : Times(d) = PathCount(graph, node, d, 1)

\* a walk of an acyclic graph has ended and emitted a node with two parents
\* under each of them
C11_Witness ==
    /\ pc = "end"
    /\ Acyclic(graph)
    /\ \E d \in Titles : Times(d) = 2 /\ PathCount(graph, node, d, 1) = 2

\* p is a proper or improper prefix of q
IsPrefix(p, q) == Len(p) <= Len(q) /\ SubSeq(q, 1, Len(p)) = p

\* entries i and j are siblings: children of the same visit of their parent
Siblings(es, i, j) ==
    /\ es[i].parent = es[j].parent
    /\ Len(es[i].path) = Len(es[j].path)
    /\ SubSeq(es[i].path, 1, Len(es[i].path) - 1)
         = SubSeq(es[j].path, 1, Len(es[j].path) - 1)

\* siblings are emitted in case-insensitive lexical order
LowerOrdered(es) ==
    \A i, j \in 1..Len(es) :
        (i < j /\ Siblings(es, i, j)) =>
            ~str_lt(lower(Chars(es[j].node)), lower(Chars(es[i].node)))

\* the entries below an entry follow it without interruption
SubtreeFirst(es) ==
    \A i, k, j \in 1..Len(es) :
        (i < k /\ k < j /\ IsPrefix(es[i].path, es[j].path)) =>
            IsPrefix(es[i].path, es[k].path)

\* g and h store the same children at every node, in whatever order
SameChildren(g, h) ==
    \A t \in Titles : Len(g[t]) = Len(h[t]) /\ Children(g, t) = Children(h, t)

\* C12: walk visits the children of every node in case-insensitive lexical
\* order of their titles, whatever the order in which the graph stores them,
\* and emits the whole subtree of a child before the next sibling.
C12_SiblingOrder ==
    pc = "end" =>
        /\ LowerOrdered(entries)
        /\ SubtreeFirst(entries)
        /\ \A h \in Graphs :
              SameChildren(graph, h) => walk_list(h, node) = entries

\* the walk an iterator on its own wraps
Source == walk_list(graph, node)

\* C13: the truth test of a MyIterator is true exactly when the next advance
\* returns a value, that is when the source has items that were not returned
\* yet, and the truth test consumes nothing: it leaves the iterator as it is.
C13_HasNext ==
    /\ [](\A w \in {Source} :
            /\ bool(it) <=> Len(taken) < Len(w)
            /\ pc = "True" => Len(taken) < Len(w)
            /\ pc \in {"False", "StopIteration"} => Len(taken) = Len(w))
    /\ [][pc' \in {"True", "False"} => (it' = it /\ taken' = taken)]_vars

\* the last item was returned after truth tests and advances, and the test
\* says so
C13_Witness == pc = "False" /\ Len(taken) >= 2

\* val, the entry the merge holds from the iterator m over the walk w, is the
\* entry of w just before the one m has cached, with the path w emitted it
\* with, while the path buffer of the walk is where the cached entry left it
Held(val, m, w) ==
    val # None =>
        \E k \in 1..Len(w) :
            /\ val = w[k]
            /\ IF m.exhausted THEN k = Len(w)
               ELSE k < Len(w) /\ m.iterable.levels = w[k + 1].path

\* C14: every entry MyIterator returns from a walk carries the path the walk
\* emitted it with; the later steps of the walk on the shared path buffer do
\* not change the lval and rval that compare_components holds, nor the entries
\* it has emitted.
C14_PathIsolated ==
    \A lw \in {LeftWalk}, rw \in {RightWalk} :
        /\ Held(lval, lgen, lw)
        /\ Held(rval, rgen, rw)
        /\ Range(Side(1)) \subseteq Range(lw)
        /\ Range(Side(2)) \subseteq Range(rw)

\* the merge holds a left entry while the walk behind the iterator has moved
\* on to an entry at another depth
C14_Witness ==
    /\ lval # None
    /\ ~lgen.exhausted
    /\ Len(lgen.iterable.levels) # Len(lval.path)
    /\ out # <<>>

\* how often x occurs in the list d has under k (not at all without the key)
Count(d, k, x) ==
    IF k \in DOMAIN d THEN Cardinality({j \in 1..Len(d[k]) : d[k][j] = x}) ELSE 0

\* some page with this title came with a "categoryinfo"
Supplied(t) ==
    \E j \in 1..Len(pages) : pages[j].title = t /\ pages[j].has_categoryinfo

\* C15: after build_graph, info has an entry for every key of the parents
\* mapping and of the children mapping, all zero when no categoryinfo was
\* supplied for the node.
C15_InfoForEveryNode ==
    pc = "built" =>
        /\ DOMAIN graph_parents \cup DOMAIN graph_subcats \subseteq DOMAIN info
        /\ \A t \in DOMAIN info : ~Supplied(t) => info[t] = ZeroInfo

\* C16: after build_graph, category c occurs in parents[p] exactly as many
\* times as p occurs in children[c], for all titles p and c.
C16_Inverse ==
    pc = "built" =>
        \A p, c \in PageTitles \cup CatTitles :
            Count(graph_parents, p, c) = Count(graph_subcats, c, p)

\* build_graph has returned after a page was seen twice and a page listed two
\* categories, one of them twice over the run
C16_Witness ==
    /\ pc = "built"
    /\ \E p, c \in PageTitles \cup CatTitles : Count(graph_subcats, c, p) >= 2
    /\ \E p \in DOMAIN graph_parents : Len(graph_parents[p]) >= 3

\* the arguments of the call_api of caller c have passed lines 173-181:
\* params is a dict and its action is in API_ACTIONS
Validated(c) ==
    /\ params[c].kind = "dict"
    /\ "action" \in DOMAIN params[c].dict
    /\ params[c].dict["action"] \in API_ACTIONS
    /\ action[c] = params[c].dict["action"]

\* C17: call_api validates its arguments before any request: a params that
\* is neither None nor a dict raises ValueError, an action that is not in
\* API_ACTIONS raises APIWrongAction, and in both cases call_api sends no
\* request.  call_api hands a request over at line 184 only, where the
\* arguments are validated; the entry of the call and lines 173-181 send
\* nothing and end the call with the exception on arguments that are not
\* valid.  (A ValueError after the request was sent is that of saving the
\* cookies, not of the validation; requests that appear meanwhile are those
\* of other calls.)
C17_ValidatedBeforeRequest ==
    /\ [](\A c \in Callers : position[c] \in {"L184", "L191"} => Validated(c))
    /\ [](\A c \in Callers : position[c] = "L179" => params[c].kind = "dict")
    /\ [][\A c \in Callers :
          /\ (position'[c] # position[c] /\ (position'[c] = "L173" \/ position[c] \in {"L173", "L179"}))
                => sent' = sent
          /\ (position'[c] # position[c] /\ position[c] = "L173" /\ params[c].kind \notin {"None", "dict"})
                => (position'[c] = "raised" /\ raised'[c] = "ValueError")
          /\ (position'[c] # position[c] /\ position[c] = "L179"
              /\ setdefault(params[c].dict, "action", "help")["action"] \notin API_ACTIONS)
                => (position'[c] = "raised" /\ raised'[c] = "APIWrongAction")
          /\ (position'[c] # position[c] /\ position'[c] = "raised" /\ raised'[c] = "APIWrongAction")
                => (position[c] = "L179" /\ sent' = sent)
          /\ (position'[c] # position[c] /\ sent' # sent /\ sent'[Len(sent')].by = "call_api")
                => (/\ position[c] = "L184"
                    /\ sent'[Len(sent')].params = params[c].dict
                    /\ sent'[Len(sent')].params["action"] \in API_ACTIONS)]_vars

\* a call_api with a wrong action has raised while another call_api, which
\* had sent its request, was waiting for the answer
C17_Witness ==
    \E c \in Callers, d \in Callers :
        /\ position[c] = "raised"
        /\ raised[c] = "APIWrongAction"
        /\ position[d] = "L191"
        /\ Len(sent) = 1
        /\ sent[1].by = "call_api"

\* C18: a pair emitted with both sides present pairs two entries that are
\* equal under the comparator; entries with different keys are only emitted
\* in one-sided pairs, the final emission after the drain loops included.
C18_PairedKeysEqual ==
    \A i \in 1..Len(out) :
        (out[i][1] # None /\ out[i][2] # None)
            => cmp_tuples(out[i][1], out[i][2]) = 0

\* the number of siblings of entry k emitted before it
Rank(es, k) == Cardinality({i \in 1..(k - 1) : Siblings(es, i, k)})

\* C19: in every entry walk emits, each path element is the 0-based rank of
\* the corresponding ancestor among the siblings visited under its parent:
\* the number of siblings emitted before it, children skipped as back-edges
\* not counted.  Every ancestor is an entry itself, whose path is the prefix.
C19_PathIsRank ==
    \A k \in 1..Len(entries) :
        LET e == entries[k]
        IN  /\ e.path # <<>>
            /\ e.path[Len(e.path)] = Rank(entries, k)
            /\ Len(e.path) >= 2 =>
                  \E i \in 1..(k - 1) :
                      /\ entries[i].node = e.parent
                      /\ entries[i].path = SubSeq(e.path, 1, Len(e.path) - 1)

\* C20: at every entry walk emits, visited is exactly the set of the nodes
\* emitted on the current path from the root to the entry, and the path has
\* one element per edge of that path, as many as visited has nodes; when the
\* walk has ended visited and the path buffer are empty again.
C20_VisitedIsPath ==
    /\ gen.st = "yield" =>
          /\ gen.visited = {Emitted(gen)[i] : i \in 1..Len(gen.stack)}
          /\ Len(gen.levels) = Len(gen.stack)
          /\ Cardinality(gen.visited) = Len(gen.levels)
          /\ walk_item(gen).node = Emitted(gen)[Len(gen.stack)]
    /\ pc = "end" => (gen.st = "done" /\ gen.visited = {} /\ gen.levels = <<>>)

\* a walk that went three levels deep and came back has ended
C20_Witness ==
    /\ pc = "end"
    /\ \E i, j \in 1..Len(entries) :
          i < j /\ Len(entries[i].path) >= 3 /\ Len(entries[j].path) = 1

\* C21: at every point of a run of compare_components the left sides of the
\* pairs emitted so far, absent sides dropped, are a prefix of
\* walk(graph, left) and the right sides a prefix of walk(graph, right): no
\* entry is emitted twice, skipped or emitted out of its side's walk order.
C21_SidesArePrefixes ==
    \A lw \in {LeftWalk}, rw \in {RightWalk} :
        /\ IsPrefix(Side(1), lw)
        /\ IsPrefix(Side(2), rw)

\* a diff of two different roots has ended after one-sided and two-sided
\* pairs, with entries of both sides emitted
C21_Witness ==
    /\ pc \in Ended
    /\ left # right
    /\ Len(Side(1)) + Len(Side(2)) >= 4
    /\ \E i \in 1..Len(out) : out[i][1] = None \/ out[i][2] = None
    /\ \E i \in 1..Len(out) : out[i][1] # None /\ out[i][2] # None

====
